---- MODULE Spec2Model ----
(***************************************************************************)
(* Model of train_yolo_v8_classification_process.py: the parameter object  *)
(* TrainYoloV8ClassificationParam (defaults, set_values) and the task      *)
(* TrainYoloV8Classification (get_progress_steps, run).                    *)
(*                                                                         *)
(* Python values are records [t, s, n]: t is the Python type, s the text   *)
(* of a str (a sequence of one-character strings), n the number of an int  *)
(* or bool, or the value of a float in units of 1/Scale.                   *)
(***************************************************************************)
EXTENDS Integers, Sequences, FiniteSets, TLC

\* ------------------------------------------------------------------ bounds
MaxRuns == 2          \* run() calls per behaviour
MaxSets == 1          \* set_values() calls per behaviour with runs
MaxParamSets == 2     \* set_values() calls per behaviour of the parameter object alone
MaxTick == 2          \* last tick the clock reaches in a behaviour
TicksPerSec == 2      \* clock ticks in one second of datetime.now()
FracDigits == 4       \* decimal digits kept of a float (0.0005 is the finest literal)

\* ------------------------------------------------------------------ values
StrV(s) == [t |-> "str", s |-> s, n |-> 0]
IntV(n) == [t |-> "int", s |-> <<>>, n |-> n]
FltV(n) == [t |-> "float", s |-> <<>>, n |-> n]
BoolV(b) == [t |-> "bool", s |-> <<>>, n |-> IF b THEN 1 ELSE 0]
NoneV == [t |-> "NoneType", s |-> <<>>, n |-> 0]
\* the result of a conversion that raised
Raised == [t |-> "raise", s |-> <<>>, n |-> 0]

\* bool(v), as the if statements of run() apply it to cfg["config_file"]
Truthy(v) ==
  CASE v.t = "str" -> v.s # <<>>
    [] v.t \in {"int", "float", "bool"} -> v.n # 0
    [] OTHER -> FALSE

DigitChars == <<"0", "1", "2", "3", "4", "5", "6", "7", "8", "9">>
IsDigit(c) == \E i \in 1..10 : DigitChars[i] = c
DigitVal(c) == (CHOOSE i \in 1..10 : DigitChars[i] = c) - 1

AllDigits(s) == Len(s) > 0 /\ \A i \in 1..Len(s) : IsDigit(s[i])

RECURSIVE DigitsToNat(_)
DigitsToNat(s) ==
  IF s = <<>> THEN 0
  ELSE 10 * DigitsToNat(SubSeq(s, 1, Len(s) - 1)) + DigitVal(s[Len(s)])

RECURSIVE NatToStr(_)
NatToStr(n) ==
  IF n < 10 THEN <<DigitChars[n + 1]>>
  ELSE NatToStr(n \div 10) \o <<DigitChars[(n % 10) + 1]>>

RECURSIVE Pow10(_)
Pow10(k) == IF k = 0 THEN 1 ELSE 10 * Pow10(k - 1)

\* a float f is held as the integer f * Scale
Scale == Pow10(FracDigits)

\* text without a leading sign, and the sign
Unsigned(s) == IF s # <<>> /\ s[1] \in {"-", "+"} THEN Tail(s) ELSE s
SignOf(s) == IF s # <<>> /\ s[1] = "-" THEN -1 ELSE 1

\* int(v)
PyInt(v) ==
  CASE v.t \in {"int", "bool"} -> IntV(v.n)
    [] v.t = "float" ->
         IntV(IF v.n >= 0 THEN v.n \div Scale ELSE -((-v.n) \div Scale))
    [] v.t = "str" ->
         IF AllDigits(Unsigned(v.s))
         THEN IntV(SignOf(v.s) * DigitsToNat(Unsigned(v.s)))
         ELSE Raised
    [] OTHER -> Raised

\* position of the decimal point in s, 0 when there is none
DotPos(s) == IF \E i \in 1..Len(s) : s[i] = "."
             THEN CHOOSE i \in 1..Len(s) : s[i] = "." /\ \A j \in 1..(i - 1) : s[j] # "."
             ELSE 0

\* the value of the unsigned decimal text s in units of 1/Scale, -1 when s
\* is not a decimal number
DecimalToScaled(s) ==
  LET d == DotPos(s)
      ip == IF d = 0 THEN s ELSE SubSeq(s, 1, d - 1)
      fp == IF d = 0 THEN <<>> ELSE SubSeq(s, d + 1, Len(s))
      wellFormed == /\ Len(ip) + Len(fp) > 0
                    /\ \A i \in 1..Len(ip) : IsDigit(ip[i])
                    /\ \A i \in 1..Len(fp) : IsDigit(fp[i])
                    /\ Len(fp) <= FracDigits
  IN IF wellFormed
     THEN DigitsToNat(ip) * Scale + DigitsToNat(fp) * Pow10(FracDigits - Len(fp))
     ELSE -1

\* float(v)
PyFloat(v) ==
  CASE v.t = "float" -> v
    [] v.t \in {"int", "bool"} -> FltV(v.n * Scale)
    [] v.t = "str" ->
         IF DecimalToScaled(Unsigned(v.s)) >= 0
         THEN FltV(SignOf(v.s) * DecimalToScaled(Unsigned(v.s)))
         ELSE Raised
    [] OTHER -> Raised

RECURSIVE StripZeros(_)
StripZeros(s) ==
  IF Len(s) > 1 /\ s[Len(s)] = "0" THEN StripZeros(SubSeq(s, 1, Len(s) - 1)) ELSE s

\* the FracDigits digits of n, zero-padded on the left
FracStr(n) ==
  LET d == NatToStr(n)
  IN [i \in 1..(FracDigits - Len(d)) |-> "0"] \o d

\* repr of the float n / Scale
FloatToStr(n) ==
  LET a == IF n < 0 THEN -n ELSE n
  IN (IF n < 0 THEN <<"-">> ELSE <<>>)
       \o NatToStr(a \div Scale) \o <<".">> \o StripZeros(FracStr(a % Scale))

\* str(v)
PyStr(v) ==
  CASE v.t = "str" -> v
    [] v.t = "int" ->
         StrV((IF v.n < 0 THEN <<"-">> ELSE <<>>) \o NatToStr(IF v.n < 0 THEN -v.n ELSE v.n))
    [] v.t = "float" -> StrV(FloatToStr(v.n))
    [] v.t = "bool" ->
         StrV(IF v.n = 1 THEN <<"T", "r", "u", "e">> ELSE <<"F", "a", "l", "s", "e">>)
    [] OTHER -> StrV(<<"N", "o", "n", "e">>)

\* no conversion: the value is stored as given
PyKeep(v) == v

\* ------------------------------------------------------------------ text
\* The literals of the source, one character per element.
T_dataset == <<"d", "a", "t", "a", "s", "e", "t">>
T_runs == <<"/", "r", "u", "n", "s", "/">>
T_yolov8m_cls == <<"y", "o", "l", "o", "v", "8", "m", "-", "c", "l", "s">>
T_auto == <<"a", "u", "t", "o">>
T_pt == <<".", "p", "t">>
T_cuda == <<"c", "u", "d", "a">>
T_cpu == <<"c", "p", "u">>

\* os.path.dirname(os.path.realpath(__file__)): where the plugin is installed
PluginDir == <<"/", "p">>

\* os.path.join(a, b) for a relative b
PathJoin(a, b) ==
  IF a = <<>> \/ a[Len(a)] = "/" THEN a \o b ELSE a \o <<"/">> \o b

\* ------------------------------------------------------------------ TrainYoloV8ClassificationParam
CfgKeys == {"dataset_folder", "model_name", "epochs", "batch_size", "input_size",
            "dataset_split_ratio", "workers", "optimizer", "weight_decay",
            "momentum", "lr0", "lrf", "config_file", "output_folder"}

\* ParamInit with another epoch count
ParamInit_Epochs ==
  [k \in CfgKeys |->
     CASE k = "dataset_folder" -> StrV(PathJoin(PluginDir, T_dataset))
       [] k = "model_name" -> StrV(T_yolov8m_cls)
       [] k = "epochs" -> IntV(50)
       [] k = "batch_size" -> IntV(8)
       [] k = "input_size" -> IntV(640)
       [] k = "dataset_split_ratio" -> FltV(9000)
       [] k = "workers" -> IntV(0)
       [] k = "optimizer" -> StrV(T_auto)
       [] k = "weight_decay" -> FltV(5)
       [] k = "momentum" -> FltV(9370)
       [] k = "lr0" -> FltV(100)
       [] k = "lrf" -> FltV(100)
       [] k = "config_file" -> StrV(<<>>)
       [] k = "output_folder" -> StrV(PluginDir \o T_runs)]

\* __init__: the defaults
ParamInit ==
  [k \in CfgKeys |->
     CASE k = "dataset_folder" -> StrV(PathJoin(PluginDir, T_dataset))
       [] k = "model_name" -> StrV(T_yolov8m_cls)
       [] k = "epochs" -> IntV(100)
       [] k = "batch_size" -> IntV(8)
       [] k = "input_size" -> IntV(640)
       [] k = "dataset_split_ratio" -> FltV(9000)
       [] k = "workers" -> IntV(0)
       [] k = "optimizer" -> StrV(T_auto)
       [] k = "weight_decay" -> FltV(5)
       [] k = "momentum" -> FltV(9370)
       [] k = "lr0" -> FltV(100)
       [] k = "lrf" -> FltV(100)
       [] k = "config_file" -> StrV(<<>>)
       [] k = "output_folder" -> StrV(PluginDir \o T_runs)]

\* set_values: the assignments in source order, each with its conversion
SetOrder ==
  << [k |-> "dataset_folder", conv |-> "str"],
     [k |-> "model_name", conv |-> "str"],
     [k |-> "epochs", conv |-> "int"],
     [k |-> "batch_size", conv |-> "int"],
     [k |-> "input_size", conv |-> "int"],
     [k |-> "workers", conv |-> "int"],
     [k |-> "optimizer", conv |-> "str"],
     [k |-> "weight_decay", conv |-> "float"],
     [k |-> "momentum", conv |-> "float"],
     [k |-> "lr0", conv |-> "float"],
     [k |-> "lrf", conv |-> "float"],
     [k |-> "config_file", conv |-> "keep"],
     [k |-> "dataset_split_ratio", conv |-> "float"],
     [k |-> "output_folder", conv |-> "str"] >>

Convert(conv, v) ==
  CASE conv = "str" -> PyStr(v)
    [] conv = "int" -> PyInt(v)
    [] conv = "float" -> PyFloat(v)
    [] OTHER -> PyKeep(v)

\* The assignments from the i-th on. A missing key (KeyError) or a failed
\* conversion (ValueError, TypeError) leaves the assignments already made.
RECURSIVE SetFrom(_, _, _)
SetFrom(c, param_map, i) ==
  IF i > Len(SetOrder) THEN [cfg |-> c, ok |-> TRUE, at |-> "", err |-> ""]
  ELSE LET e == SetOrder[i]
       IN IF e.k \notin DOMAIN param_map
          THEN [cfg |-> c, ok |-> FALSE, at |-> e.k, err |-> "KeyError"]
          ELSE LET r == Convert(e.conv, param_map[e.k])
               IN IF r = Raised
                  THEN [cfg |-> c, ok |-> FALSE, at |-> e.k,
                        err |-> IF param_map[e.k].t = "str" THEN "ValueError"
                                ELSE "TypeError"]
                  ELSE SetFrom([c EXCEPT ![e.k] = r], param_map, i + 1)

set_values(c, param_map) == SetFrom(c, param_map, 1)

\* ------------------------------------------------------------------ the host's inputs
T_100 == <<"1", "0", "0">>
T_1000 == <<"1", "0", "0", "0">>
T_abc == <<"a", "b", "c">>
T_cfg_yaml == <<"/", "c", ".", "y", "m", "l">>
T_out == <<"/", "o">>
T_data == <<"/", "d">>
T_model_pt == <<"/", "m", ".", "p", "t">>
T_yolov8n_cls == <<"y", "o", "l", "o", "v", "8", "n", "-", "c", "l", "s">>

\* A complete mapping of text values, as the host's parameter map holds them.
BaseMap ==
  [k \in CfgKeys |->
     CASE k = "dataset_folder" -> StrV(T_data)
       [] k = "model_name" -> StrV(T_yolov8n_cls)
       [] k = "epochs" -> StrV(<<"1">>)
       [] k = "batch_size" -> StrV(<<"1", "6">>)
       [] k = "input_size" -> StrV(<<"2", "2", "4">>)
       [] k = "dataset_split_ratio" -> StrV(<<"0", ".", "8">>)
       [] k = "workers" -> StrV(<<"2">>)
       [] k = "optimizer" -> StrV(<<"S", "G", "D">>)
       [] k = "weight_decay" -> StrV(<<"0", ".", "0", "0", "0", "5">>)
       [] k = "momentum" -> StrV(<<"0", ".", "9">>)
       [] k = "lr0" -> StrV(<<"0", ".", "0", "1">>)
       [] k = "lrf" -> StrV(<<"1">>)
       [] k = "config_file" -> StrV(<<>>)
       [] k = "output_folder" -> StrV(T_out)]

IntKeys == {"epochs", "batch_size", "input_size", "workers"}
FloatKeys == {"dataset_split_ratio", "weight_decay", "momentum", "lr0", "lrf"}

\* The other values a key is given: text that converts, text that does not,
\* and values of another Python type.
AltValues(k) ==
  CASE k \in IntKeys ->
         {StrV(T_100), StrV(T_1000), StrV(<<"-", "3">>), StrV(<<"1", ".", "5">>),
          StrV(T_abc), IntV(7), FltV(25000), NoneV}
    [] k \in FloatKeys ->
         {StrV(T_100), StrV(<<"0", ".", "2", "5">>), StrV(T_abc), StrV(<<>>),
          IntV(2), FltV(1250), NoneV}
    [] k = "config_file" -> {StrV(T_cfg_yaml), IntV(7), IntV(0), NoneV}
    [] k = "output_folder" -> {StrV(<<>>), StrV(T_out \o <<"/">>), IntV(7)}
    [] OTHER -> {StrV(T_abc), IntV(7), FltV(5000), BoolV(TRUE), NoneV}

Restrict(f, S) == [k \in S |-> f[k]]

\* The mappings set_values is called with: BaseMap, BaseMap with one key
\* missing, BaseMap with one value replaced.
ParamMaps ==
  {BaseMap}
    \cup {Restrict(BaseMap, CfgKeys \ {k}) : k \in CfgKeys}
    \cup UNION {{[BaseMap EXCEPT ![k] = v] : v \in AltValues(k)} : k \in CfgKeys}

\* The mappings set_values is called with between runs: those that change
\* what run() does.
RunParamMaps ==
  {BaseMap,
   Restrict(BaseMap, CfgKeys \ {"lrf"}),
   [BaseMap EXCEPT !["epochs"] = StrV(T_1000)],
   [BaseMap EXCEPT !["config_file"] = StrV(T_cfg_yaml)],
   [BaseMap EXCEPT !["config_file"] = IntV(7)],
   [BaseMap EXCEPT !["output_folder"] = StrV(<<>>)],
   [BaseMap EXCEPT !["output_folder"] = StrV(T_out \o <<"/">>)]}

\* The paths the host's input slot supplies.
InputPaths == {StrV(T_data), StrV(<<>>)}

\* What yaml.safe_load returns: a mapping, or None (an empty file), or a list.
DocKeys == {"model", "epochs", "data"}
DocValue(k) ==
  CASE k = "model" -> StrV(T_model_pt)
    [] k = "epochs" -> IntV(3)
    [] OTHER -> StrV(T_data)
EmptyMap == [k \in {} |-> NoneV]
NoDoc == [kind |-> "unset", m |-> EmptyMap]
Docs ==
  {[kind |-> "map", m |-> [k \in S |-> DocValue(k)]] : S \in SUBSET DocKeys}
    \cup {[kind |-> "none", m |-> EmptyMap], [kind |-> "list", m |-> EmptyMap]}

\* ------------------------------------------------------------------ clock and file system
Pad2(n) == <<DigitChars[(n \div 10) + 1], DigitChars[(n % 10) + 1]>>

\* Strftime without the seconds
Strftime_Minutes(t) ==
  LET sec == t \div TicksPerSec
  IN <<"2", "0", "2", "4", "0", "1", "0", "1", "_">>
       \o Pad2((sec \div 3600) % 24) \o Pad2((sec \div 60) % 60)

\* datetime.now().strftime('%Y%m%d_%H%M%S') at tick t of the day the
\* behaviour starts on: the fraction of the second is dropped
Strftime(t) ==
  LET sec == t \div TicksPerSec
  IN <<"2", "0", "2", "4", "0", "1", "0", "1", "_">>
       \o Pad2((sec \div 3600) % 24) \o Pad2((sec \div 60) % 60) \o Pad2(sec % 60)

RECURSIVE StripSlashes(_)
StripSlashes(path) ==
  IF Len(path) > 1 /\ path[Len(path)] = "/"
  THEN StripSlashes(SubSeq(path, 1, Len(path) - 1))
  ELSE path

Ancestors(path) == {SubSeq(path, 1, i - 1) : i \in {j \in 2..Len(path) : path[j] = "/"}}

\* os.makedirs(path, exist_ok=exist_ok) on the set fs of existing directories
makedirs(fs, path, exist_ok) ==
  LET leaf == StripSlashes(path)
  IN IF path = <<>> THEN [ok |-> FALSE, fs |-> fs, err |-> "FileNotFoundError"]
     ELSE IF leaf \in fs /\ ~exist_ok
     THEN [ok |-> FALSE, fs |-> fs, err |-> "FileExistsError"]
     ELSE [ok |-> TRUE, fs |-> fs \cup Ancestors(leaf) \cup {leaf}, err |-> ""]

\* ------------------------------------------------------------------ state
VARIABLES
  cfg,              \* the parameter object's cfg
  lastSet,          \* the last set_values call: its mapping and how it ended
  setCount,         \* set_values calls so far
  status,           \* "Idle", "Running", "Completed", "Failed"
  param,            \* run()'s local param: the cfg the run reads
  pc,               \* where run() stands
  events,           \* what the current run has done, in order
  device,           \* self.device
  model_name_file,  \* self.model_name_file
  model,            \* self.model: the artifact it was built from
  config_file,      \* run()'s local config_file: the parsed document
  dataset_folder,   \* run()'s local dataset_folder
  output_folder,    \* run()'s local output_folder
  opened,           \* the paths the current run has opened
  trainCalls,       \* the calls of model.train of the current run
  progress,         \* emit_step_progress calls of the current run
  err,              \* the exception that ended the current run
  runCount,         \* run() calls so far
  now,              \* the clock as last read, in ticks
  dirs,             \* the directories that exist
  runLog            \* one entry per run that reached the output folder

vars == <<cfg, lastSet, setCount, status, param, pc, events, device, model_name_file,
          model, config_file, dataset_folder, output_folder, opened, trainCalls,
          progress, err, runCount, now, dirs, runLog>>

paramVars == <<cfg, lastSet, setCount>>
runVars == <<status, param, pc, events, device, model_name_file, model, config_file,
             dataset_folder, output_folder, opened, trainCalls, progress, err,
             runCount, dirs, runLog>>

NoErr == [at |-> "", kind |-> ""]

\* TrainYoloV8Classification.__init__ with param None
Init ==
  /\ cfg = ParamInit
  /\ lastSet = [param_map |-> EmptyMap, ok |-> TRUE, at |-> "", err |-> ""]
  /\ setCount = 0
  /\ status = "Idle"
  /\ param = ParamInit
  /\ pc = "idle"
  /\ events = <<>>
  /\ device = StrV(T_cpu)
  /\ model_name_file = NoneV
  /\ model = NoneV
  /\ config_file = NoDoc
  /\ dataset_folder = NoneV
  /\ output_folder = <<>>
  /\ opened = {}
  /\ trainCalls = <<>>
  /\ progress = 0
  /\ err = NoErr
  /\ runCount = 0
  /\ now = 0
  /\ dirs = {PluginDir}
  /\ runLog = <<>>

\* get_progress_steps()
get_progress_steps == 1

\* ------------------------------------------------------------------ the host
\* The host calls set_values, outside of run(), with one of the mappings maps.
SetValuesFrom(maps) ==
  /\ status # "Running"
  /\ \E param_map \in maps :
       LET r == set_values(cfg, param_map)
       IN /\ cfg' = r.cfg
          /\ lastSet' = [param_map |-> param_map, ok |-> r.ok, at |-> r.at, err |-> r.err]
  /\ setCount' = setCount + 1
  /\ UNCHANGED <<runVars, now>>

SetValues ==
  /\ setCount < MaxSets
  /\ SetValuesFrom(RunParamMaps)

SetValuesAny ==
  /\ setCount < MaxParamSets
  /\ SetValuesFrom(ParamMaps)

\* Raise with the exception caught and the run reported complete
Raise_Swallowed(at, kind) ==
  /\ status' = "Completed"
  /\ pc' = "idle"
  /\ err' = NoErr

\* An exception leaves run(): nothing after the raising statement runs.
Raise(at, kind) ==
  /\ status' = "Failed"
  /\ pc' = "idle"
  /\ err' = [at |-> at, kind |-> kind]

\* ------------------------------------------------------------------ run()
\* begin_task_run, the parameters, the input path, the device
RunBegin ==
  /\ status # "Running"
  /\ runCount < MaxRuns
  /\ runCount' = runCount + 1
  /\ status' = "Running"
  /\ pc' = "begun"
  /\ events' = <<"begin_task_run">>
  /\ param' = cfg
  /\ \E path \in InputPaths : dataset_folder' = path
  /\ \E cuda \in BOOLEAN : device' = IF cuda THEN StrV(T_cuda) ELSE StrV(T_cpu)
  /\ config_file' = NoDoc
  /\ output_folder' = <<>>
  /\ opened' = {}
  /\ trainCalls' = <<>>
  /\ progress' = 0
  /\ err' = NoErr
  /\ UNCHANGED <<paramVars, model_name_file, model, now, dirs, runLog>>

\* ModelField reading the key with a default of None
ModelField_Get(document) ==
  IF document.kind # "map" THEN [ok |-> FALSE, v |-> NoneV, kind |-> "TypeError"]
  ELSE IF "model" \notin DOMAIN document.m
  THEN [ok |-> TRUE, v |-> NoneV, kind |-> ""]
  ELSE [ok |-> TRUE, v |-> document.m["model"], kind |-> ""]

\* config_file["model"] of the parsed document
ModelField(document) ==
  IF document.kind # "map" THEN [ok |-> FALSE, v |-> NoneV, kind |-> "TypeError"]
  ELSE IF "model" \notin DOMAIN document.m
  THEN [ok |-> FALSE, v |-> NoneV, kind |-> "KeyError"]
  ELSE [ok |-> TRUE, v |-> document.m["model"], kind |-> ""]

\* ModelFromName without the suffix
ModelFromName_NoSuffix(model_name) == StrV(model_name.s)

\* the artifact named by model_name
ModelFromName(model_name) == StrV(model_name.s \o T_pt)

\* the model artifact: from the config file, or from model_name
RunModelName ==
  /\ pc = "begun"
  /\ IF Truthy(param["config_file"])
     THEN /\ opened' = opened \cup {param["config_file"]}
          /\ events' = Append(events, "open")
          /\ \/ /\ Raise("open", "OSError")
                /\ UNCHANGED <<config_file, model_name_file>>
             \/ /\ Raise("safe_load", "YAMLError")
                /\ UNCHANGED <<config_file, model_name_file>>
             \/ \E document \in Docs :
                  LET field == ModelField(document)
                  IN /\ config_file' = document
                     /\ IF field.ok
                        THEN /\ model_name_file' = field.v
                             /\ pc' = "named"
                             /\ UNCHANGED <<status, err>>
                        ELSE /\ Raise("model", field.kind)
                             /\ UNCHANGED model_name_file
     ELSE /\ model_name_file' = ModelFromName(param["model_name"])
          /\ pc' = "named"
          /\ UNCHANGED <<status, err, opened, events, config_file>>
  /\ UNCHANGED <<paramVars, param, device, model, dataset_folder, output_folder,
                 trainCalls, progress, runCount, now, dirs, runLog>>

\* YOLO(self.model_name_file) and add_callback
RunModel ==
  /\ pc = "named"
  /\ events' = Append(events, "YOLO")
  /\ \/ /\ model' = model_name_file
        /\ pc' = "built"
        /\ UNCHANGED <<status, err>>
     \/ /\ Raise("YOLO", "Exception")
        /\ UNCHANGED model
  /\ UNCHANGED <<paramVars, param, device, model_name_file, config_file, dataset_folder,
                 output_folder, opened, trainCalls, progress, runCount, now,
                 dirs, runLog>>

\* the output folder and, under it, the folder named by the time; the clock
\* has not gone back since it was last read
RunOutputFolder ==
  /\ pc = "built"
  /\ \E t \in now..MaxTick : now' = t
  /\ LET experiment_name == Strftime(now')
         first == makedirs(dirs, param["output_folder"].s, TRUE)
         joined == PathJoin(param["output_folder"].s, experiment_name)
         second == makedirs(first.fs, joined, TRUE)
         entry == [at |-> now', folder |-> param["output_folder"].s, dir |-> joined,
                   existed |-> joined \in dirs, ok |-> first.ok /\ second.ok]
     IN /\ events' = Append(events, "makedirs")
        /\ runLog' = Append(runLog, entry)
        /\ IF ~first.ok
           THEN /\ Raise("makedirs", first.err)
                /\ UNCHANGED <<dirs, output_folder>>
           ELSE IF ~second.ok
           THEN /\ Raise("makedirs", second.err)
                /\ dirs' = first.fs
                /\ output_folder' = joined
           ELSE /\ dirs' = second.fs
                /\ output_folder' = joined
                /\ pc' = "foldered"
                /\ UNCHANGED <<status, err>>
  /\ UNCHANGED <<paramVars, param, device, model_name_file, model, config_file,
                 dataset_folder, opened, trainCalls, progress, runCount>>

\* the keyword arguments of the config-file call: every pair of the document
CustomArgs(document) == [k \in DOMAIN document.m |-> document.m[k]]

MappedKeys == {"data", "epochs", "imgsz", "batch", "workers", "optimizer",
               "momentum", "weight_decay", "lr0", "lrf", "pretrained", "device",
               "project"}

\* the keyword arguments of the call made from the parameters
MappedArgs(c, data, dev, project) ==
  [k \in MappedKeys |->
     CASE k = "data" -> data
       [] k = "epochs" -> c["epochs"]
       [] k = "imgsz" -> c["input_size"]
       [] k = "batch" -> c["batch_size"]
       [] k = "workers" -> c["workers"]
       [] k = "optimizer" -> c["optimizer"]
       [] k = "momentum" -> c["momentum"]
       [] k = "weight_decay" -> c["weight_decay"]
       [] k = "lr0" -> c["lr0"]
       [] k = "lrf" -> c["lrf"]
       [] k = "pretrained" -> BoolV(TRUE)
       [] k = "device" -> dev
       [] OTHER -> StrV(project)]

\* TrainCall with the document's pairs laid over the mapped parameters
TrainCall_Merged(c, document, data, dev, project) ==
  IF Truthy(c["config_file"])
  THEN [mode |-> "config",
        args |-> [k \in MappedKeys \cup DOMAIN document.m |->
                    IF k \in DOMAIN document.m THEN document.m[k]
                    ELSE MappedArgs(c, data, dev, project)[k]]]
  ELSE [mode |-> "mapped", args |-> MappedArgs(c, data, dev, project)]

\* the one call of self.model.train that run() makes
TrainCall(c, document, data, dev, project) ==
  IF Truthy(c["config_file"])
  THEN [mode |-> "config", args |-> CustomArgs(document)]
  ELSE [mode |-> "mapped", args |-> MappedArgs(c, data, dev, project)]

\* RunTrain calling train a second time when the first call raises
RunTrain_Retry ==
  /\ pc = "foldered"
  /\ events' = Append(events, "train")
  /\ \/ /\ trainCalls' = Append(trainCalls,
                                TrainCall(param, config_file, dataset_folder, device,
                                          output_folder))
        /\ pc' = "trained"
        /\ UNCHANGED <<status, err>>
     \/ /\ trainCalls' = trainCalls
                           \o << TrainCall(param, config_file, dataset_folder, device,
                                           output_folder),
                                 TrainCall(param, config_file, dataset_folder, device,
                                           output_folder) >>
        /\ Raise("train", "Exception")
  /\ UNCHANGED <<paramVars, param, device, model_name_file, model, config_file,
                 dataset_folder, output_folder, opened, progress, runCount, now,
                 dirs, runLog>>

\* RunTrain removing the output folder when train raises
RunTrain_Rollback ==
  /\ pc = "foldered"
  /\ events' = Append(events, "train")
  /\ trainCalls' = Append(trainCalls,
                          TrainCall(param, config_file, dataset_folder, device, output_folder))
  /\ \/ /\ pc' = "trained"
        /\ UNCHANGED <<status, err, dirs>>
     \/ /\ Raise("train", "Exception")
        /\ dirs' = dirs \ {StripSlashes(output_folder)}
  /\ UNCHANGED <<paramVars, param, device, model_name_file, model, config_file,
                 dataset_folder, output_folder, opened, progress, runCount, now,
                 runLog>>

\* self.model.train(...): it returns, or it raises
RunTrain ==
  /\ pc = "foldered"
  /\ events' = Append(events, "train")
  /\ trainCalls' = Append(trainCalls,
                          TrainCall(param, config_file, dataset_folder, device, output_folder))
  /\ \/ /\ pc' = "trained"
        /\ UNCHANGED <<status, err>>
     \/ Raise("train", "Exception")
  /\ UNCHANGED <<paramVars, param, device, model_name_file, model, config_file,
                 dataset_folder, output_folder, opened, progress, runCount, now,
                 dirs, runLog>>

\* RunStepProgress emitting one step per epoch
RunStepProgress_PerEpoch ==
  /\ pc = "trained"
  /\ events' = Append(events, "emit_step_progress")
  /\ progress' = progress + (IF param["epochs"].n > 0 THEN param["epochs"].n ELSE 0)
  /\ pc' = "stepped"
  /\ UNCHANGED <<paramVars, param, status, device, model_name_file, model, config_file,
                 dataset_folder, output_folder, opened, trainCalls, err, runCount,
                 now, dirs, runLog>>

\* emit_step_progress()
RunStepProgress ==
  /\ pc = "trained"
  /\ events' = Append(events, "emit_step_progress")
  /\ progress' = progress + 1
  /\ pc' = "stepped"
  /\ UNCHANGED <<paramVars, param, status, device, model_name_file, model, config_file,
                 dataset_folder, output_folder, opened, trainCalls, err, runCount,
                 now, dirs, runLog>>

\* end_task_run()
RunEnd ==
  /\ pc = "stepped"
  /\ events' = Append(events, "end_task_run")
  /\ status' = "Completed"
  /\ pc' = "idle"
  /\ UNCHANGED <<paramVars, param, device, model_name_file, model, config_file,
                 dataset_folder, output_folder, opened, trainCalls, progress, err,
                 runCount, now, dirs, runLog>>

Run == RunBegin \/ RunModelName \/ RunModel \/ RunOutputFolder \/ RunTrain
         \/ RunStepProgress \/ RunEnd

Next == SetValues \/ Run

Spec == Init /\ [][Next]_vars

\* The parameter object alone, under every mapping of ParamMaps.
ParamNext == SetValuesAny

ParamSpec == Init /\ [][ParamNext]_vars

\* ------------------------------------------------------------------ types
TypeOK ==
  /\ status \in {"Idle", "Running", "Completed", "Failed"}
  /\ pc \in {"idle", "begun", "named", "built", "foldered", "trained", "stepped"}
  /\ DOMAIN cfg = CfgKeys
  /\ now \in 0..MaxTick
  /\ runCount \in 0..MaxRuns

\* ------------------------------------------------------------------ properties
Has(seq, e) == \E i \in 1..Len(seq) : seq[i] = e
Count(seq, e) == Cardinality({i \in 1..Len(seq) : seq[i] = e})
ConfigMode == Truthy(param["config_file"])
TrainReached == Has(events, "train")

\* C1: when config_file is set the arguments of the train call are exactly
\* the pairs of the parsed document, so a mapped parameter is among them only
\* when the document has that key; when config_file is empty the run opens
\* no file.
C1_ModesNotMerged ==
  /\ \A i \in 1..Len(trainCalls) :
       ConfigMode =>
         /\ trainCalls[i].args = config_file.m
         /\ \A k \in MappedKeys :
              k \in DOMAIN trainCalls[i].args => k \in DOMAIN config_file.m
  /\ ~ConfigMode => opened = {} /\ ~Has(events, "open")

\* C1 witness: a config-file call made from a document without epochs.
C1_Witness ==
  /\ Len(trainCalls) = 1
  /\ ConfigMode
  /\ "epochs" \notin DOMAIN config_file.m
  /\ "data" \in DOMAIN trainCalls[1].args

\* C2: a completed run has emitted exactly one progress step, whatever the
\* epoch count, and that is the number get_progress_steps declares.
C2_OneProgressStep ==
  /\ progress <= 1
  /\ status = "Completed" =>
       /\ progress = 1
       /\ Count(events, "emit_step_progress") = 1
       /\ get_progress_steps = progress

\* C2 witness: a run of 1000 epochs has completed.
C2_Witness ==
  /\ status = "Completed"
  /\ param["epochs"] = IntV(1000)
  /\ progress = 1

\* C3: a run that reaches the training step calls train exactly once, in the
\* mode config_file selects; no run calls it twice, and a call that raised is
\* not made again.
C3_TrainOnce ==
  /\ Len(trainCalls) <= 1
  /\ TrainReached <=> Len(trainCalls) = 1
  /\ \A i \in 1..Len(trainCalls) :
       /\ trainCalls[i].mode \in {"config", "mapped"}
       /\ trainCalls[i].mode = "config" <=> ConfigMode
       /\ trainCalls[i].mode = "mapped" => DOMAIN trainCalls[i].args = MappedKeys

\* C3 witness: a run whose train call raised.
C3_Witness ==
  /\ status = "Failed"
  /\ err.at = "train"
  /\ Len(trainCalls) = 1

\* C4: after the train call raises, the run has ended with that exception, no
\* progress step and no end_task_run follow, train was called once, and the
\* output folder of the run still exists.
C4_TrainFailure ==
  (TrainReached /\ status = "Failed") =>
    /\ err = [at |-> "train", kind |-> "Exception"]
    /\ pc = "idle"
    /\ progress = 0
    /\ ~Has(events, "emit_step_progress")
    /\ ~Has(events, "end_task_run")
    /\ Count(events, "train") = 1
    /\ Len(trainCalls) = 1
    /\ StripSlashes(output_folder) \in dirs

\* C4 witness: a run whose train call raised after its folder was made.
C4_Witness ==
  /\ status = "Failed"
  /\ err.at = "train"
  /\ Has(events, "makedirs")
  /\ output_folder # <<>>

\* the declared type of each option
DeclaredType(k) ==
  CASE k \in {"epochs", "batch_size", "input_size", "workers"} -> "int"
    [] k \in {"dataset_split_ratio", "weight_decay", "momentum", "lr0", "lrf"} -> "float"
    [] OTHER -> "str"

\* C5: set_values leaves every one of the 14 options with a value of its
\* declared type, the text "100" becomes the integer 100, and the call fails
\* when a key is missing or a value is not a number where one is needed.
C5_Coerces ==
  setCount > 0 =>
    /\ lastSet.ok => \A k \in CfgKeys : cfg[k].t = DeclaredType(k)
    /\ (lastSet.ok /\ lastSet.param_map["epochs"] = StrV(<<"1", "0", "0">>)) =>
         cfg["epochs"] = IntV(100)
    /\ (\E k \in CfgKeys : k \notin DOMAIN lastSet.param_map) => ~lastSet.ok
    /\ (\E k \in DOMAIN lastSet.param_map :
          /\ DeclaredType(k) # "str"
          /\ lastSet.param_map[k] \in {StrV(<<"a", "b", "c">>), NoneV}) => ~lastSet.ok

\* the default table
DefaultTable ==
  [k \in CfgKeys |->
     CASE k = "dataset_folder" -> StrV(<<"/", "p", "/", "d", "a", "t", "a", "s", "e", "t">>)
       [] k = "model_name" -> StrV(<<"y", "o", "l", "o", "v", "8", "m", "-", "c", "l", "s">>)
       [] k = "epochs" -> IntV(100)
       [] k = "batch_size" -> IntV(8)
       [] k = "input_size" -> IntV(640)
       [] k = "dataset_split_ratio" -> PyFloat(StrV(<<"0", ".", "9">>))
       [] k = "workers" -> IntV(0)
       [] k = "optimizer" -> StrV(<<"a", "u", "t", "o">>)
       [] k = "weight_decay" -> PyFloat(StrV(<<"0", ".", "0", "0", "0", "5">>))
       [] k = "momentum" -> PyFloat(StrV(<<"0", ".", "9", "3", "7">>))
       [] k = "lr0" -> PyFloat(StrV(<<"0", ".", "0", "1">>))
       [] k = "lrf" -> PyFloat(StrV(<<"0", ".", "0", "1">>))
       [] k = "config_file" -> StrV(<<>>)
       [] OTHER -> StrV(<<"/", "p", "/", "r", "u", "n", "s", "/">>)]

\* C6: until set_values is called, cfg holds the 14 defaults of the table and
\* nothing else.
C6_Defaults ==
  setCount = 0 => (DOMAIN cfg = CfgKeys /\ cfg = DefaultTable)

\* C6 witness: a run is under way on a configuration never set.
C6_Witness == setCount = 0 /\ status = "Running" /\ param = cfg

\* C7: the artifact the model is built from is the model field of the
\* document when config_file is set, whatever model_name is, and model_name
\* followed by ".pt" when config_file is empty.
C7_Artifact ==
  Has(events, "YOLO") =>
    /\ model_name_file =
         IF ConfigMode THEN config_file.m["model"]
         ELSE StrV(param["model_name"].s \o <<".", "p", "t">>)
    /\ pc \in {"built", "foldered", "trained", "stepped"} => model = model_name_file
    /\ status = "Completed" => model = model_name_file

\* C7 witness: a model built from model_name.
C7_Witness ==
  /\ pc = "built"
  /\ ~ConfigMode
  /\ model = StrV(<<"y", "o", "l", "o", "v", "8", "n", "-", "c", "l", "s", ".", "p", "t">>)

\* the second of the clock a run's folder was named in
SecondOf(entry) == entry.at \div TicksPerSec

\* C8 as stated: two runs with the same output_folder at different times
\* make folders of different names, and both exist.
C8_DifferentTimes ==
  \A i, j \in 1..Len(runLog) :
    (i < j /\ runLog[i].ok /\ runLog[j].ok /\ runLog[i].at # runLog[j].at
         /\ runLog[i].folder = runLog[j].folder) =>
      /\ runLog[i].dir # runLog[j].dir
      /\ StripSlashes(runLog[i].dir) \in dirs
      /\ StripSlashes(runLog[j].dir) \in dirs

\* C8 amended: two runs with the same output_folder whose times fall in
\* different seconds of the clock make folders of different names; the
\* folder of every run exists afterwards; and making a folder that already
\* exists (two runs within one second) raises nothing.
C8_DifferentSeconds ==
  /\ \A i, j \in 1..Len(runLog) :
       (i < j /\ runLog[i].ok /\ runLog[j].ok /\ SecondOf(runLog[i]) # SecondOf(runLog[j])
            /\ runLog[i].folder = runLog[j].folder) =>
         runLog[i].dir # runLog[j].dir
  /\ \A i \in 1..Len(runLog) :
       /\ runLog[i].ok => StripSlashes(runLog[i].dir) \in dirs
       /\ runLog[i].folder # <<>> => runLog[i].ok

\* C8 witness: two runs in different seconds under one output_folder.
C8_Witness ==
  \E i, j \in 1..Len(runLog) :
    /\ i < j
    /\ runLog[i].ok /\ runLog[j].ok
    /\ runLog[i].folder = runLog[j].folder
    /\ SecondOf(runLog[i]) # SecondOf(runLog[j])
    /\ StripSlashes(runLog[i].dir) \in dirs
    /\ StripSlashes(runLog[j].dir) \in dirs

IsListed(e) == e # "open"

\* C9: a run is Running from begin_task_run until it ends Completed or Failed,
\* never both; a Completed run has done, once each and in this order,
\* begin_task_run, the model, the output folder, train, the progress step,
\* end_task_run; end_task_run is never there without a returned train call.
C9_Lifecycle ==
  /\ status = "Idle" <=> runCount = 0
  /\ status = "Running" <=> pc # "idle"
  /\ status = "Completed" =>
       /\ SelectSeq(events, IsListed) =
            <<"begin_task_run", "YOLO", "makedirs", "train", "emit_step_progress",
              "end_task_run">>
       /\ err = NoErr
  /\ status = "Failed" => (err # NoErr /\ ~Has(events, "end_task_run"))
  /\ Has(events, "end_task_run") => (status = "Completed" /\ Len(trainCalls) = 1)
  /\ status = "Running" => (err = NoErr /\ events # <<>> /\ events[1] = "begin_task_run")

\* C9 witness: a completed run that read a config file.
C9_Witness ==
  /\ status = "Completed"
  /\ Has(events, "open")
  /\ events[Len(events)] = "end_task_run"

\* the parsed document is a mapping without a model key
NoModelKey == config_file.kind = "map" /\ "model" \notin DOMAIN config_file.m

\* C10: a run whose parsed document has no model key fails with KeyError, not
\* falling back to model_name: no model is built, no folder made, train not
\* called, no progress step and no end_task_run.
C10_MissingModelKey ==
  (ConfigMode /\ NoModelKey) =>
    /\ status = "Failed"
    /\ err = [at |-> "model", kind |-> "KeyError"]
    /\ ~Has(events, "YOLO")
    /\ ~Has(events, "makedirs")
    /\ trainCalls = <<>>
    /\ progress = 0
    /\ ~Has(events, "end_task_run")
    /\ output_folder = <<>>

\* C10 witness: a run failed on a document that has other keys but no model.
C10_Witness ==
  /\ status = "Failed"
  /\ ConfigMode
  /\ NoModelKey
  /\ "epochs" \in DOMAIN config_file.m

====
